---- MODULE Spec2Model ----
(***************************************************************************)
(* Model of process_agent: the interactive loop run_agent (agent.py) and   *)
(* the single-shot query_agent (query.py), both driving a backend client   *)
(* (connect, disconnect, query, receive_response) that may fail at every   *)
(* call.                                                                   *)
(***************************************************************************)
EXTENDS Integers, Sequences, FiniteSets, TLC

VARIABLES
    pc,            \* run_agent: position in the coroutine
    turn_count,    \* run_agent: local turn_count
    user_input,    \* run_agent: the line last returned by console.input
    open_conns,    \* run_agent: backend connections currently open
    exc,           \* run_agent: an exception is propagating
    console,       \* run_agent: what was printed since the last input was read
    received,      \* run_agent: messages yielded by the current response stream
    calls,         \* history: client calls made since the last input was read
    prev_turn,     \* history: turn_count when the last input was read
    double_close,  \* history: disconnect was invoked with no connection open
    failed_call,   \* history: the client call that failed since the last input
    prompt_turn,   \* run_agent: the turn number shown in the last prompt
    stream,        \* history: messages yielded by the current response stream
    client_options,\* run_agent: the options the client was constructed with
    options,       \* config: the module-level AGENT_OPTIONS
    q_pc,          \* query_agent: position in the coroutine
    q_prompt,      \* query_agent: the argument prompt
    response_text, \* query_agent: local response_text
    q_conns,       \* query_agent: backend connections currently open
    q_exc,         \* query_agent: an exception is propagating
    q_stream,      \* history: messages yielded by the response stream
    q_calls,       \* history: client calls made by the invocation
    q_failed,      \* history: some client call of the invocation failed
    q_result,      \* query_agent: the returned string, NoResult before return
    q_client_options, \* query_agent: the options the client was constructed with
    p_pc,          \* two invocations of query_agent: position of each
    p_text,        \* two invocations: the accumulators response_text
    p_stream,      \* history: messages yielded to each invocation
    p_exc,         \* two invocations: an exception is propagating
    p_result       \* two invocations: the returned strings

loop_vars == <<pc, turn_count, user_input, open_conns, exc, console, received,
               calls, prev_turn, double_close, failed_call, prompt_turn,
               stream, client_options>>
query_vars == <<q_pc, q_prompt, response_text, q_conns, q_exc, q_stream,
                q_calls, q_failed, q_result, q_client_options>>
pair_vars == <<p_pc, p_text, p_stream, p_exc, p_result>>
vars == <<loop_vars, query_vars, pair_vars, options>>

(***************************************************************************)
(* Bounds.                                                                 *)
(***************************************************************************)
MaxTurns == 2      \* queries per conversation explored
MaxStream == 2     \* messages per response stream explored
MaxBlocks == 2     \* content blocks per message explored

(***************************************************************************)
(* Text: an input line is a sequence of characters.                        *)
(***************************************************************************)
Whitespace == {" ", "\t"}

UpperOf == [c \in {"e", "x", "i", "t", "q", "u", "n", "w", "h", "s"} |->
              CASE c = "e" -> "E" [] c = "x" -> "X" [] c = "i" -> "I"
                [] c = "t" -> "T" [] c = "q" -> "Q" [] c = "u" -> "U"
                [] c = "n" -> "N" [] c = "w" -> "W" [] c = "h" -> "H"
                [] c = "s" -> "S"]

\* str.lower on one character
LowerChar(c) ==
    IF \E l \in DOMAIN UpperOf : UpperOf[l] = c
    THEN CHOOSE l \in DOMAIN UpperOf : UpperOf[l] = c
    ELSE c

\* str.lower
lower(s) == [i \in 1..Len(s) |-> LowerChar(s[i])]

RECURSIVE lstrip(_)
lstrip(s) == IF s # <<>> /\ Head(s) \in Whitespace THEN lstrip(Tail(s)) ELSE s

RECURSIVE rstrip(_)
rstrip(s) ==
    IF s # <<>> /\ s[Len(s)] \in Whitespace
    THEN rstrip(SubSeq(s, 1, Len(s) - 1))
    ELSE s

\* str.strip
strip(s) == rstrip(lstrip(s))

W_exit == <<"e", "x", "i", "t">>
W_quit == <<"q", "u", "i", "t">>
W_new == <<"n", "e", "w">>
W_news == <<"n", "e", "w", "s">>
W_hi == <<"h", "i">>

\* every way of writing w in upper and lower case letters
CaseVariants(w) ==
    { [i \in 1..Len(w) |-> IF i \in S THEN UpperOf[w[i]] ELSE w[i]] :
        S \in SUBSET (1..Len(w)) }

Pads == {<<>>, <<" ">>}

\* the lines console.input may return
Inputs ==
    LET words == CaseVariants(W_new)
                 \cup {W_exit, <<"E", "X", "I", "T">>, <<"E", "x", "i", "t">>,
                       <<"e", "X", "i", "T">>,
                       W_quit, <<"Q", "U", "I", "T">>,
                       W_hi, <<"H", "i">>,
                       W_news, <<"n", "e", " ", "w">>, <<>>}
    IN { l \o w \o r : l \in Pads, w \in words, r \in Pads }
       \cup {<<"\t">>, <<"\t", "q", "u", "i", "t">>, <<"N", "e", "w", "\t">>}

NoInput == <<"<none>">>

(***************************************************************************)
(* Messages of a response stream.  A message has a type and a content, a   *)
(* sequence of blocks; a block has a type and a payload.                   *)
(***************************************************************************)
Texts == {"Cats ", "are great."}

Blocks ==
    [type : {"TextBlock"}, text : Texts]
    \cup {[type |-> "ToolUseBlock", text |-> "Bash"]}

RECURSIVE SeqsUpTo(_, _)
SeqsUpTo(S, n) ==
    IF n = 0 THEN {<<>>}
    ELSE LET shorter == SeqsUpTo(S, n - 1)
         IN shorter \cup {Append(q, e) : q \in shorter, e \in S}

Messages ==
    [type : {"AssistantMessage"}, content : SeqsUpTo(Blocks, MaxBlocks)]
    \cup {[type |-> "UserMessage",
           content |-> <<[type |-> "TextBlock", text |-> "Cats "]>>],
          [type |-> "ResultMessage", content |-> <<>>]}

\* the messages the interactive loop's streams are drawn from
LoopMessages ==
    {[type |-> "AssistantMessage",
      content |-> <<[type |-> "TextBlock", text |-> "Cats "]>>],
     [type |-> "ResultMessage", content |-> <<>>]}

\* a line of text printed by console.print
Printed(t) == [type |-> t, content |-> <<>>]

\* how a client call can end
Outcomes == {"ok", "fail"}

\* connections left open by a disconnect that succeeds
Disconnected(n) == IF n > 0 THEN n - 1 ELSE 0

(***************************************************************************)
(* Configuration (config.py).                                              *)
(***************************************************************************)
SUBAGENTS ==
    [explainer |-> [description |-> "explaining", prompt |-> "explainer",
                    tools |-> <<"Read", "Edit">>, model |-> "haiku"],
     reviewer |-> [description |-> "reviewing", prompt |-> "reviewer",
                   tools |-> <<>>, model |-> "haiku"]]

AGENT_OPTIONS ==
    [system_prompt |-> "SYSTEM_PROMPT",
     allowed_tools |-> <<"Read", "Grep", "Glob", "Bash", "Write", "Edit", "Skill">>,
     permission_mode |-> "default",
     model |-> "haiku",
     cwd |-> "working-dir",
     setting_sources |-> <<"local">>,
     agents |-> SUBAGENTS]

\* no client constructed yet
NoOptions == [system_prompt |-> "<none>"]

(***************************************************************************)
(* run_agent: command recognition, in the order of the code's tests.       *)
(***************************************************************************)
IsExit(s) == lower(s) \in {W_exit, W_quit}

\* the comparison without the case folding
IsNewCaseSensitive(s) == s = W_new

IsNew(s) == lower(s) = W_new

\* the emptiness test without the strip
IsBlankUnstripped(s) == s = <<>>

IsBlank(s) == strip(s) = <<>>

Dispatch(s) ==
    IF IsExit(s) THEN "exit"
    ELSE IF IsNew(s) THEN "new"
    ELSE IF IsBlank(s) THEN "skip"
    ELSE "query"

(***************************************************************************)
(* run_agent.                                                              *)
(***************************************************************************)
LoopInit ==
    /\ pc = "start"
    /\ turn_count = 0
    /\ user_input = NoInput
    /\ open_conns = 0
    /\ exc = FALSE
    /\ console = <<Printed("banner")>>
    /\ received = 0
    /\ calls = <<>>
    /\ prev_turn = 0
    /\ double_close = FALSE
    /\ failed_call = "none"
    /\ prompt_turn = 0
    /\ stream = <<>>
    /\ client_options = NoOptions

\* a session that overrides the model in the shared options record
EnterOverridingModel ==
    /\ pc = "start"
    /\ options' = [options EXCEPT !.model = "sonnet"]
    /\ client_options' = options'
    /\ \E r \in Outcomes :
         IF r = "ok"
         THEN /\ open_conns' = open_conns + 1
              /\ turn_count' = 0
              /\ pc' = "prompt"
              /\ UNCHANGED <<exc, failed_call>>
         ELSE /\ pc' = "raised"
              /\ exc' = TRUE
              /\ failed_call' = "connect"
              /\ UNCHANGED <<open_conns, turn_count>>
    /\ calls' = Append(calls, "connect")
    /\ UNCHANGED <<user_input, console, received, prev_turn, double_close>>
    /\ UNCHANGED <<query_vars, pair_vars>>
    /\ UNCHANGED <<prompt_turn, stream>>

\* a client that is constructed but never connected
EnterWithoutConnect ==
    /\ pc = "start"
    /\ client_options' = options
    /\ turn_count' = 0
    /\ pc' = "prompt"
    /\ UNCHANGED <<open_conns, exc, failed_call, calls>>
    /\ UNCHANGED <<user_input, console, received, prev_turn, double_close>>
    /\ UNCHANGED <<query_vars, pair_vars, options>>
    /\ UNCHANGED <<prompt_turn, stream>>

\* async with ClaudeSDKClient(...) as client: __aenter__ connects
Enter ==
    /\ pc = "start"
    /\ \E r \in Outcomes :
         IF r = "ok"
         THEN /\ open_conns' = open_conns + 1
              /\ turn_count' = 0
              /\ pc' = "prompt"
              /\ UNCHANGED <<exc, failed_call>>
         ELSE /\ pc' = "raised"
              /\ exc' = TRUE
              /\ failed_call' = "connect"
              /\ UNCHANGED <<open_conns, turn_count>>
    /\ calls' = Append(calls, "connect")
    /\ UNCHANGED <<user_input, console, received, prev_turn, double_close>>
    /\ UNCHANGED <<query_vars, pair_vars, options>>
    /\ client_options' = options
    /\ UNCHANGED <<prompt_turn, stream>>

\* the turn number of the prompt, zero-based
TurnNumberZeroBased(t) == t

\* the turn number of the prompt: Turn {turn_count + 1}
TurnNumber(t) == t + 1

\* console.input shows the prompt and returns a line; the loop body runs up
\* to its first await
ReadInput ==
    /\ pc = "prompt"
    /\ \E line \in Inputs :
         LET d == Dispatch(line) IN
         /\ d = "query" => turn_count < MaxTurns
         /\ user_input' = line
         /\ pc' = CASE d = "exit" -> "exiting"
                    [] d = "new" -> "new_disconnect"
                    [] d = "skip" -> "prompt"
                    [] OTHER -> "query"
         /\ console' = IF d = "exit" THEN <<Printed("goodbye")>> ELSE <<>>
    /\ calls' = <<>>
    /\ prev_turn' = turn_count
    /\ received' = 0
    /\ failed_call' = "none"
    /\ UNCHANGED <<turn_count, open_conns, exc, double_close>>
    /\ UNCHANGED <<query_vars, pair_vars, options>>
    /\ prompt_turn' = TurnNumber(turn_count)
    /\ stream' = <<>>
    /\ UNCHANGED client_options

\* "new" going on to connect without the disconnect
NewDisconnectSkipped ==
    /\ pc = "new_disconnect"
    /\ pc' = "new_connect"
    /\ UNCHANGED <<turn_count, user_input, open_conns, exc, console, received,
                   calls, prev_turn, double_close, failed_call>>
    /\ UNCHANGED <<query_vars, pair_vars, options>>
    /\ UNCHANGED <<prompt_turn, stream, client_options>>

\* await client.disconnect() of "new"
NewDisconnect ==
    /\ pc = "new_disconnect"
    /\ calls' = Append(calls, "disconnect")
    /\ double_close' = (double_close \/ open_conns = 0)
    /\ \E r \in Outcomes :
         IF r = "ok"
         THEN /\ open_conns' = Disconnected(open_conns)
              /\ pc' = "new_connect"
              /\ UNCHANGED <<exc, failed_call>>
         ELSE /\ pc' = "exiting"
              /\ exc' = TRUE
              /\ failed_call' = "disconnect"
              /\ open_conns' = open_conns
    /\ UNCHANGED <<turn_count, user_input, console, received, prev_turn>>
    /\ UNCHANGED <<query_vars, pair_vars, options>>
    /\ UNCHANGED <<prompt_turn, stream, client_options>>

\* "new" without its continue: the loop body goes on to the query
NewConnectFallThrough ==
    /\ pc = "new_connect"
    /\ calls' = Append(calls, "connect")
    /\ \E r \in Outcomes :
         IF r = "ok"
         THEN /\ open_conns' = open_conns + 1
              /\ turn_count' = 0
              /\ console' = Append(console, Printed("new_conversation"))
              /\ pc' = "query"
              /\ UNCHANGED <<exc, failed_call>>
         ELSE /\ pc' = "exiting"
              /\ exc' = TRUE
              /\ failed_call' = "connect"
              /\ UNCHANGED <<open_conns, turn_count, console>>
    /\ UNCHANGED <<user_input, received, prev_turn, double_close>>
    /\ UNCHANGED <<query_vars, pair_vars, options>>
    /\ UNCHANGED <<prompt_turn, stream, client_options>>

\* a reconnect whose failure is caught, the loop going on
NewConnectRecovered ==
    /\ pc = "new_connect"
    /\ calls' = Append(calls, "connect")
    /\ \E r \in Outcomes :
         IF r = "ok"
         THEN /\ open_conns' = open_conns + 1
              /\ turn_count' = 0
              /\ console' = Append(console, Printed("new_conversation"))
              /\ pc' = "prompt"
              /\ UNCHANGED <<exc, failed_call>>
         ELSE /\ pc' = "prompt"
              /\ console' = Append(console, Printed("error"))
              /\ failed_call' = "connect"
              /\ UNCHANGED <<open_conns, turn_count, exc>>
    /\ UNCHANGED <<user_input, received, prev_turn, double_close>>
    /\ UNCHANGED <<query_vars, pair_vars, options>>
    /\ UNCHANGED <<prompt_turn, stream, client_options>>

\* await client.connect() of "new", then the reset of turn_count
NewConnect ==
    /\ pc = "new_connect"
    /\ calls' = Append(calls, "connect")
    /\ \E r \in Outcomes :
         IF r = "ok"
         THEN /\ open_conns' = open_conns + 1
              /\ turn_count' = 0
              /\ console' = Append(console, Printed("new_conversation"))
              /\ pc' = "prompt"
              /\ UNCHANGED <<exc, failed_call>>
         ELSE /\ pc' = "exiting"
              /\ exc' = TRUE
              /\ failed_call' = "connect"
              /\ UNCHANGED <<open_conns, turn_count, console>>
    /\ UNCHANGED <<user_input, received, prev_turn, double_close>>
    /\ UNCHANGED <<query_vars, pair_vars, options>>
    /\ UNCHANGED <<prompt_turn, stream, client_options>>

\* turn_count += 1 placed before await client.query(user_input)
QueryIncrementFirst ==
    /\ pc = "query"
    /\ calls' = Append(calls, "query")
    /\ turn_count' = turn_count + 1
    /\ \E r \in Outcomes :
         IF r = "ok"
         THEN /\ console' = Append(console, Printed("agent_label"))
              /\ pc' = "receive"
              /\ UNCHANGED <<exc, failed_call>>
         ELSE /\ pc' = "exiting"
              /\ exc' = TRUE
              /\ failed_call' = "query"
              /\ UNCHANGED console
    /\ UNCHANGED <<user_input, open_conns, received, prev_turn, double_close>>
    /\ UNCHANGED <<query_vars, pair_vars, options>>
    /\ UNCHANGED <<prompt_turn, stream, client_options>>

\* await client.query(user_input), then turn_count += 1
Query ==
    /\ pc = "query"
    /\ calls' = Append(calls, "query")
    /\ \E r \in Outcomes :
         IF r = "ok"
         THEN /\ turn_count' = turn_count + 1
              /\ console' = Append(console, Printed("agent_label"))
              /\ pc' = "receive"
              /\ UNCHANGED <<exc, failed_call>>
         ELSE /\ pc' = "exiting"
              /\ exc' = TRUE
              /\ failed_call' = "query"
              /\ UNCHANGED <<turn_count, console>>
    /\ UNCHANGED <<user_input, open_conns, received, prev_turn, double_close>>
    /\ UNCHANGED <<query_vars, pair_vars, options>>
    /\ UNCHANGED <<prompt_turn, stream, client_options>>

\* printing the assistant messages only
PrintAssistantOnly(out, m) ==
    IF m.type = "AssistantMessage" THEN Append(out, m) ELSE out

\* console.print(message)
PrintMessage(out, m) == Append(out, m)

\* async for message in client.receive_response(): console.print(message)
Receive ==
    /\ pc = "receive"
    /\ calls' = IF received = 0 /\ calls[Len(calls)] # "receive_response"
                THEN Append(calls, "receive_response") ELSE calls
    /\ \/ \E m \in LoopMessages :
            /\ received < MaxStream
            /\ received' = received + 1
            /\ console' = PrintMessage(console, m)
            /\ stream' = Append(stream, m)
            /\ UNCHANGED <<pc, exc, failed_call>>
       \/ /\ console' = Append(console, Printed("newline"))
          /\ pc' = "prompt"
          /\ UNCHANGED <<received, stream, exc, failed_call>>
       \/ /\ pc' = "exiting"
          /\ exc' = TRUE
          /\ failed_call' = "receive_response"
          /\ UNCHANGED <<received, stream, console>>
    /\ UNCHANGED <<turn_count, user_input, open_conns, prev_turn, double_close>>
    /\ UNCHANGED <<query_vars, pair_vars, options>>
    /\ UNCHANGED <<prompt_turn, client_options>>

\* leaving the async with block: __aexit__ disconnects and does not
\* suppress an exception
Exit ==
    /\ pc = "exiting"
    /\ calls' = Append(calls, "disconnect")
    /\ double_close' = (double_close \/ open_conns = 0)
    /\ \E r \in Outcomes :
         IF r = "ok"
         THEN /\ open_conns' = Disconnected(open_conns)
              /\ pc' = IF exc THEN "raised" ELSE "done"
              /\ UNCHANGED <<exc, failed_call>>
         ELSE /\ pc' = "raised"
              /\ exc' = TRUE
              /\ failed_call' = "disconnect"
              /\ open_conns' = open_conns
    /\ UNCHANGED <<turn_count, user_input, console, received, prev_turn>>
    /\ UNCHANGED <<query_vars, pair_vars, options>>
    /\ UNCHANGED <<prompt_turn, stream, client_options>>

(***************************************************************************)
(* query_agent.                                                            *)
(***************************************************************************)
Prompts == {"", "hello"}

NoResult == [returned |-> FALSE]

\* the loop body without the test of the message's type
IsAnyMessage(m) == TRUE

IsAssistantMessage(m) == m.type = "AssistantMessage"

IsTextBlock(b) == b.type = "TextBlock"

\* for block in message.content: if isinstance(block, TextBlock): ... += block.text
RECURSIVE AppendBlocks(_, _)
AppendBlocks(text, content) ==
    IF content = <<>> THEN text
    ELSE AppendBlocks(IF IsTextBlock(Head(content))
                      THEN text \o Head(content).text
                      ELSE text,
                      Tail(content))

\* the body of the async for loop, for one message
ProcessMessage(text, m) ==
    IF IsAssistantMessage(m) THEN AppendBlocks(text, m.content) ELSE text

\* an __aexit__ that suppresses the exception
AfterExitSuppressed(e) == "return"

\* where control goes when __aexit__ has disconnected: it returns a false
\* value, so a propagating exception goes on propagating
AfterExit(e) == IF e THEN "raised" ELSE "return"

QueryInit ==
    /\ q_pc = "start"
    /\ q_prompt \in Prompts
    /\ response_text = ""
    /\ q_conns = 0
    /\ q_exc = FALSE
    /\ q_stream = <<>>
    /\ q_calls = <<>>
    /\ q_failed = FALSE
    /\ q_result = NoResult
    /\ q_client_options = NoOptions

\* async with ClaudeSDKClient(...) as client: __aenter__ connects
QEnter ==
    /\ q_pc = "start"
    /\ q_calls' = Append(q_calls, "connect")
    /\ \E r \in Outcomes :
         IF r = "ok"
         THEN /\ q_conns' = q_conns + 1
              /\ q_pc' = "query"
              /\ UNCHANGED <<q_exc, q_failed>>
         ELSE /\ q_pc' = "raised"
              /\ q_exc' = TRUE
              /\ q_failed' = TRUE
              /\ q_conns' = q_conns
    /\ UNCHANGED <<q_prompt, response_text, q_stream, q_result>>
    /\ UNCHANGED <<loop_vars, pair_vars, options>>
    /\ q_client_options' = options

\* a query that is submitted again after it failed
QQueryRetrying ==
    /\ q_pc = "query"
    /\ q_calls' = Append(q_calls, "query")
    /\ \E r \in Outcomes :
         IF r = "ok"
         THEN /\ q_pc' = "receive"
              /\ UNCHANGED <<q_exc, q_failed>>
         ELSE /\ q_pc' = IF Len(q_calls) < 3 THEN "query" ELSE "exiting"
              /\ q_exc' = (Len(q_calls) >= 3)
              /\ q_failed' = TRUE
    /\ UNCHANGED <<q_prompt, response_text, q_conns, q_stream, q_result>>
    /\ UNCHANGED <<loop_vars, pair_vars, options>>
    /\ UNCHANGED q_client_options

\* await client.query(prompt)
QQuery ==
    /\ q_pc = "query"
    /\ q_calls' = Append(q_calls, "query")
    /\ \E r \in Outcomes :
         IF r = "ok"
         THEN /\ q_pc' = "receive"
              /\ UNCHANGED <<q_exc, q_failed>>
         ELSE /\ q_pc' = "exiting"
              /\ q_exc' = TRUE
              /\ q_failed' = TRUE
    /\ UNCHANGED <<q_prompt, response_text, q_conns, q_stream, q_result>>
    /\ UNCHANGED <<loop_vars, pair_vars, options>>
    /\ UNCHANGED q_client_options

\* async for message in client.receive_response(): one message, the end of
\* the stream, or a failure of the stream
QReceive ==
    /\ q_pc = "receive"
    /\ q_calls' = IF q_calls[Len(q_calls)] # "receive_response"
                  THEN Append(q_calls, "receive_response") ELSE q_calls
    /\ \/ \E m \in Messages :
            /\ Len(q_stream) < MaxStream
            /\ q_stream' = Append(q_stream, m)
            /\ response_text' = ProcessMessage(response_text, m)
            /\ UNCHANGED <<q_pc, q_exc, q_failed>>
       \/ /\ q_pc' = "exiting"
          /\ UNCHANGED <<q_stream, response_text, q_exc, q_failed>>
       \/ /\ q_pc' = "exiting"
          /\ q_exc' = TRUE
          /\ q_failed' = TRUE
          /\ UNCHANGED <<q_stream, response_text>>
    /\ UNCHANGED <<q_prompt, q_conns, q_result>>
    /\ UNCHANGED <<loop_vars, pair_vars, options>>
    /\ UNCHANGED q_client_options

\* leaving the async with block: __aexit__ disconnects
QExit ==
    /\ q_pc = "exiting"
    /\ q_calls' = Append(q_calls, "disconnect")
    /\ \E r \in Outcomes :
         IF r = "ok"
         THEN /\ q_conns' = Disconnected(q_conns)
              /\ q_pc' = AfterExit(q_exc)
              /\ UNCHANGED <<q_exc, q_failed>>
         ELSE /\ q_pc' = "raised"
              /\ q_exc' = TRUE
              /\ q_failed' = TRUE
              /\ q_conns' = q_conns
    /\ UNCHANGED <<q_prompt, response_text, q_stream, q_result>>
    /\ UNCHANGED <<loop_vars, pair_vars, options>>
    /\ UNCHANGED q_client_options

\* return response_text
QReturn ==
    /\ q_pc = "return"
    /\ q_result' = [returned |-> TRUE, value |-> response_text]
    /\ q_pc' = "returned"
    /\ UNCHANGED <<q_prompt, response_text, q_conns, q_exc, q_stream, q_calls,
                   q_failed>>
    /\ UNCHANGED <<loop_vars, pair_vars, options>>
    /\ UNCHANGED q_client_options

(***************************************************************************)
(* Two invocations of query_agent interleaved at their await points.       *)
(***************************************************************************)
Invocations == {1, 2}

PairInit ==
    /\ p_pc = [i \in Invocations |-> "start"]
    /\ p_text = [i \in Invocations |-> ""]
    /\ p_stream = [i \in Invocations |-> <<>>]
    /\ p_exc = [i \in Invocations |-> FALSE]
    /\ p_result = [i \in Invocations |-> NoResult]

\* the messages the streams of the two invocations are drawn from
PairMessages ==
    {[type |-> "AssistantMessage",
      content |-> <<[type |-> "TextBlock", text |-> "Cats "]>>],
     [type |-> "AssistantMessage",
      content |-> <<[type |-> "TextBlock", text |-> "are great."]>>],
     [type |-> "ResultMessage", content |-> <<>>]}

\* one accumulator shared by the invocations
SharedAccumulator(i) == 1

\* response_text is a local of the invocation
Accumulator(i) == i

\* response_text = "" and async with ClaudeSDKClient(...) as client
PEnter(i) ==
    /\ p_pc[i] = "start"
    /\ p_text' = [p_text EXCEPT ![Accumulator(i)] = ""]
    /\ \E r \in Outcomes :
         IF r = "ok"
         THEN /\ p_pc' = [p_pc EXCEPT ![i] = "query"]
              /\ UNCHANGED p_exc
         ELSE /\ p_pc' = [p_pc EXCEPT ![i] = "raised"]
              /\ p_exc' = [p_exc EXCEPT ![i] = TRUE]
    /\ UNCHANGED <<p_stream, p_result>>
    /\ UNCHANGED <<loop_vars, query_vars, options>>

\* await client.query(prompt)
PQuery(i) ==
    /\ p_pc[i] = "query"
    /\ \E r \in Outcomes :
         IF r = "ok"
         THEN /\ p_pc' = [p_pc EXCEPT ![i] = "receive"]
              /\ UNCHANGED p_exc
         ELSE /\ p_pc' = [p_pc EXCEPT ![i] = "exiting"]
              /\ p_exc' = [p_exc EXCEPT ![i] = TRUE]
    /\ UNCHANGED <<p_text, p_stream, p_result>>
    /\ UNCHANGED <<loop_vars, query_vars, options>>

\* async for message in client.receive_response()
PReceive(i) ==
    /\ p_pc[i] = "receive"
    /\ \/ \E m \in PairMessages :
            /\ Len(p_stream[i]) < MaxStream
            /\ p_stream' = [p_stream EXCEPT ![i] = Append(@, m)]
            /\ p_text' = [p_text EXCEPT ![Accumulator(i)] = ProcessMessage(@, m)]
            /\ UNCHANGED <<p_pc, p_exc>>
       \/ /\ p_pc' = [p_pc EXCEPT ![i] = "exiting"]
          /\ UNCHANGED <<p_stream, p_text, p_exc>>
       \/ /\ p_pc' = [p_pc EXCEPT ![i] = "exiting"]
          /\ p_exc' = [p_exc EXCEPT ![i] = TRUE]
          /\ UNCHANGED <<p_stream, p_text>>
    /\ UNCHANGED p_result
    /\ UNCHANGED <<loop_vars, query_vars, options>>

\* leaving the async with block: __aexit__ disconnects
PExit(i) ==
    /\ p_pc[i] = "exiting"
    /\ \E r \in Outcomes :
         IF r = "ok"
         THEN /\ p_pc' = [p_pc EXCEPT ![i] = AfterExit(p_exc[i])]
              /\ UNCHANGED p_exc
         ELSE /\ p_pc' = [p_pc EXCEPT ![i] = "raised"]
              /\ p_exc' = [p_exc EXCEPT ![i] = TRUE]
    /\ UNCHANGED <<p_text, p_stream, p_result>>
    /\ UNCHANGED <<loop_vars, query_vars, options>>

\* return response_text
PReturn(i) ==
    /\ p_pc[i] = "return"
    /\ p_result' = [p_result EXCEPT
                      ![i] = [returned |-> TRUE, value |-> p_text[Accumulator(i)]]]
    /\ p_pc' = [p_pc EXCEPT ![i] = "returned"]
    /\ UNCHANGED <<p_text, p_stream, p_exc>>
    /\ UNCHANGED <<loop_vars, query_vars, options>>

(***************************************************************************)
(* Specifications: Spec is one run of run_agent, SpecQ one invocation of   *)
(* query_agent.                                                            *)
(***************************************************************************)
Init == LoopInit /\ QueryInit /\ PairInit /\ options = AGENT_OPTIONS

Next == Enter \/ ReadInput \/ NewDisconnect \/ NewConnect \/ Query
        \/ Receive \/ Exit

Spec == Init /\ [][Next]_vars

NextQ == QEnter \/ QQuery \/ QReceive \/ QExit \/ QReturn

SpecQ == Init /\ [][NextQ]_vars

\* two invocations of query_agent, interleaved
NextPair ==
    \E i \in Invocations :
       PEnter(i) \/ PQuery(i) \/ PReceive(i) \/ PExit(i) \/ PReturn(i)

SpecPair == Init /\ [][NextPair]_vars

\* one run of either flow
NextEither == (q_pc = "start" /\ Next) \/ (pc = "start" /\ NextQ)

SpecEither == Init /\ [][NextEither]_vars

TypeOK ==
    /\ pc \in {"start", "prompt", "new_disconnect", "new_connect", "query",
               "receive", "exiting", "done", "raised"}
    /\ turn_count \in 0..MaxTurns
    /\ open_conns \in 0..2
    /\ q_pc \in {"start", "query", "receive", "exiting", "return", "returned",
                 "raised"}

(***************************************************************************)
(* Properties.                                                             *)
(***************************************************************************)
InCalls(op) == \E i \in 1..Len(calls) : calls[i] = op

InputRead == user_input # NoInput

\* the command word of a line: trimmed and case-folded
CommandWord(s) == lower(strip(s))

LoopEnded == pc \in {"exiting", "done", "raised"}

\* C1: every input that is "exit" or "quit" in any letter case, surrounding
\* whitespace included, ends the loop, and no query is issued for it.
C1_ExitEndsLoopWithoutQuery ==
    (InputRead /\ CommandWord(user_input) \in {W_exit, W_quit})
        => (LoopEnded /\ ~InCalls("query"))

\* C2: a failure of query or of the response stream is caught: an error
\* annotation is printed, the loop does not exit and goes on to the next input.
C2_QueryFailureRecovered ==
    failed_call \in {"query", "receive_response"}
        => /\ ~LoopEnded
           /\ \E i \in 1..Len(console) : console[i] = Printed("error")

\* C3: on every exit path of a session scope no connection is left open, and
\* disconnect is never invoked on a connection that is already closed.
C3_ReleasedExactlyOnce ==
    /\ pc \in {"done", "raised"} => open_conns = 0
    /\ ~double_close
    /\ q_pc \in {"return", "returned", "raised"} => q_conns = 0
    /\ Cardinality({i \in 1..Len(q_calls) : q_calls[i] = "disconnect"}) <= 1

InSession == pc \in {"prompt", "new_disconnect", "new_connect", "query", "receive"}

\* C4 as stated: in every state of an interactive session exactly one
\* connection is open.
C4_ExactlyOneConnection == InSession => open_conns = 1

\* C4 amended: never more than one connection is open; exactly one is open
\* whenever the loop waits for input, submits a query, consumes a response or
\* is about to disconnect for "new"; between the disconnect and the connect of
\* a reset none is open.
C4_AtMostOneConnection ==
    /\ open_conns <= 1
    /\ pc \in {"prompt", "new_disconnect", "query", "receive"} => open_conns = 1
    /\ pc = "new_connect" => open_conns = 0

\* a reset has completed: the old connection was closed, then a new one opened
C4_Witness ==
    /\ pc = "prompt"
    /\ calls = <<"disconnect", "connect">>
    /\ open_conns = 1

IsNewLine(s) == lower(s) = W_new

\* C5 as stated: every input equal to "new" in any letter case resets the
\* session (disconnect, then connect), sets the turn counter to 0, issues no
\* query, and the loop continues.
C5_NewAlwaysResets ==
    (InputRead /\ IsNewLine(user_input))
        => /\ ~InCalls("query")
           /\ pc \in {"new_disconnect", "new_connect", "prompt"}
           /\ pc = "prompt" => /\ calls = <<"disconnect", "connect">>
                               /\ turn_count = 0

\* C5 amended: every input equal to "new" in any letter case issues no query
\* and starts a reset; when the disconnect and the connect both succeed the
\* turn counter is 0 and the loop continues; when one of them fails the
\* failure leaves the loop.
C5_NewResetsUnlessResetFails ==
    (InputRead /\ IsNewLine(user_input))
        => /\ ~InCalls("query")
           /\ \/ pc \in {"new_disconnect", "new_connect", "prompt"}
                 /\ failed_call = "none"
              \/ pc \in {"exiting", "raised"}
                 /\ exc
                 /\ failed_call \in {"disconnect", "connect"}
           /\ pc = "new_disconnect" => calls = <<>>
           /\ pc = "new_connect" => calls = <<"disconnect">>
           /\ pc = "prompt" => /\ calls = <<"disconnect", "connect">>
                               /\ turn_count = 0
                               /\ open_conns = 1

\* a "new" written with capitals has reset a conversation that had turns
C5_Witness ==
    /\ user_input = <<"N", "e", "W">>
    /\ pc = "prompt"
    /\ prev_turn > 0
    /\ turn_count = 0
    /\ calls = <<"disconnect", "connect">>

IsQueryLine(s) ==
    strip(s) # <<>> /\ CommandWord(s) \notin {W_exit, W_quit, W_new}

\* C6: when the loop is back at the prompt after an input, the turn counter
\* is one more than before if the input was non-empty after trimming and not
\* a command, 0 after "new", and otherwise what it was before.
C6_TurnCountCountsQueries ==
    (InputRead /\ pc = "prompt")
        => turn_count = IF IsQueryLine(user_input) THEN prev_turn + 1
                        ELSE IF CommandWord(user_input) = W_new THEN 0
                        ELSE prev_turn

\* C7: an input that is empty or only whitespace issues no query, leaves the
\* turn counter and the connection as they were, and the loop continues.
C7_BlankInputSkipped ==
    (InputRead /\ strip(user_input) = <<>>)
        => /\ pc = "prompt"
           /\ calls = <<>>
           /\ turn_count = prev_turn
           /\ open_conns = 1
           /\ ~exc

\* a whitespace-only line was read in a conversation that had turns
C7_Witness ==
    /\ user_input = <<" ", " ">>
    /\ pc = "prompt"
    /\ turn_count > 0

\* C8: an input is submitted as a query if and only if its trimmed form is
\* non-empty and its trimmed, case-folded form is none of exit, quit, new.
C8_QueryIffNotCommand ==
    InputRead => ((pc = "query" \/ InCalls("query")) <=> IsQueryLine(user_input))

RECURSIVE Concat(_)
Concat(texts) == IF texts = <<>> THEN "" ELSE Head(texts) \o Concat(Tail(texts))

\* the text fragments of a stream: the text blocks of its assistant messages
Fragments(msgs) ==
    LET of(m) == IF m.type = "AssistantMessage"
                 THEN Concat([i \in 1..Len(m.content) |->
                                IF m.content[i].type = "TextBlock"
                                THEN m.content[i].text ELSE ""])
                 ELSE ""
    IN Concat([i \in 1..Len(msgs) |-> of(msgs[i])])

\* C9: query_agent returns the concatenation, in arrival order, of the text
\* fragments of the response stream and nothing else; a stream without text
\* fragments yields the empty string.
C9_ReturnsTextFragments ==
    q_pc = "returned"
        => /\ q_result.returned
           /\ q_result.value = Fragments(q_stream)
           /\ (\A i \in 1..Len(q_stream) :
                  \/ q_stream[i].type # "AssistantMessage"
                  \/ \A j \in 1..Len(q_stream[i].content) :
                        q_stream[i].content[j].type # "TextBlock")
                 => q_result.value = ""

\* two fragments were received in one message, and a message that is not an
\* assistant message and carries a text block
C9_Witness ==
    /\ q_pc = "returned"
    /\ q_result.value = "Cats are great."
    /\ Len(q_stream) = 2
    /\ \E i \in 1..Len(q_stream) :
          /\ q_stream[i].type = "UserMessage"
          /\ q_stream[i].content[1].type = "TextBlock"

\* C10: after a failure of connect, query or the stream, query_agent never
\* returns a string: the failure propagates.
C10_FailurePropagates ==
    q_failed => /\ q_result = NoResult
                /\ q_pc \in {"exiting", "raised"}

\* the stream failed after text had been accumulated
C10_Witness ==
    /\ q_pc = "raised"
    /\ q_failed
    /\ response_text # ""
    /\ q_calls = <<"connect", "query", "receive_response", "disconnect">>

\* the client calls of one invocation of query_agent, in order
RoundTrip == <<"connect", "query", "receive_response", "disconnect">>

StepOf(op) == CHOOSE k \in 1..Len(RoundTrip) : RoundTrip[k] = op

\* C11: an invocation of query_agent makes each client call at most once and
\* in the order open, query, drain, close (no repetition, no retry); it
\* returns only after all four, with the stream drained without failure and
\* the session closed.
C11_OneRoundTripThenReturn ==
    /\ \A i \in 1..Len(q_calls) :
          \E k \in 1..Len(RoundTrip) : RoundTrip[k] = q_calls[i]
    /\ \A i, j \in 1..Len(q_calls) :
          i < j => StepOf(q_calls[i]) < StepOf(q_calls[j])
    /\ q_pc \in {"return", "returned"}
          => /\ q_calls = RoundTrip
             /\ q_conns = 0
             /\ ~q_failed
    /\ q_result # NoResult => q_pc = "returned"

\* an invocation has returned after a stream of two messages
C11_Witness ==
    /\ q_pc = "returned"
    /\ q_calls = RoundTrip
    /\ Len(q_stream) = 2
    /\ q_conns = 0

ResetFailed ==
    /\ InputRead
    /\ IsNewLine(user_input)
    /\ failed_call \in {"disconnect", "connect"}

\* C12: a failure of the disconnect or of the connect of "new" is not
\* recovered: the exception leaves the loop and ends the session, and from
\* then on no input is read and no query is issued.
C12_ResetFailureIsFatal ==
    /\ [](ResetFailed => /\ pc \in {"exiting", "raised"}
                         /\ exc
                         /\ ~InCalls("query"))
    /\ [][ResetFailed => /\ ResetFailed'
                         /\ user_input' = user_input
                         /\ prompt_turn' = prompt_turn
                         /\ turn_count' = turn_count]_vars

\* the reconnect of "new" failed and the exception has left run_agent
C12_Witness ==
    /\ pc = "raised"
    /\ user_input = W_new
    /\ failed_call = "connect"
    /\ calls = <<"disconnect", "connect", "disconnect">>

\* C13: the loop stops only on an explicit exit or quit, or on an
\* unrecoverable error (a failed connect or disconnect): no query, completed
\* or failed, makes it stop.
C13_StopsOnlyOnExitOrFatalError ==
    LoopEnded => \/ CommandWord(user_input) \in {W_exit, W_quit}
                 \/ failed_call \in {"connect", "disconnect"}

\* C14 as stated: at the moment the query is sent the turn counter has
\* already been incremented.
C14_IncrementBeforeSubmit ==
    (InputRead /\ pc = "query") => turn_count = prev_turn + 1

\* C14 amended: the text is submitted first; the turn counter is incremented
\* when client.query has returned, before the response is consumed, and is not
\* incremented when client.query fails.
C14_IncrementAfterSubmit ==
    /\ (InputRead /\ pc = "query") => turn_count = prev_turn /\ ~InCalls("query")
    /\ pc = "receive" => turn_count = prev_turn + 1 /\ InCalls("query")
    /\ failed_call = "query" => turn_count = prev_turn

\* the second query of a conversation failed: the counter stayed at 1
C14_Witness ==
    /\ failed_call = "query"
    /\ pc = "exiting"
    /\ prev_turn = 1
    /\ turn_count = 1

\* C15: the prompt shows the turn counter plus one: 1 at the start of the
\* session and right after "new", the same number again after a blank input,
\* one more after a query, and a larger number only after a query.
C15_PromptTurnNumber ==
    [][pc = "prompt" =>
         /\ prompt_turn' = turn_count + 1
         /\ ~InputRead => prompt_turn' = 1
         /\ calls = <<"disconnect", "connect">> => prompt_turn' = 1
         /\ (InputRead /\ strip(user_input) = <<>>) => prompt_turn' = prompt_turn
         /\ calls = <<"query", "receive_response">>
               => prompt_turn' = prompt_turn + 1
         /\ (InputRead /\ prompt_turn' > prompt_turn) => InCalls("query")]_vars

\* a blank line was read at the prompt of turn 2
C15_Witness ==
    /\ pc = "prompt"
    /\ InputRead
    /\ strip(user_input) = <<>>
    /\ prompt_turn = 2
    /\ turn_count = 1

\* C16: the response stream is consumed to its end before the next input is
\* read: every message is printed in arrival order, the separator follows the
\* last one, and while the stream is consumed no input is read and no other
\* query or reset is issued.
C16_StreamDrainedInOrder ==
    /\ [](pc = "receive"
            => /\ console = <<Printed("agent_label")>> \o stream
               /\ calls \in {<<"query">>, <<"query", "receive_response">>})
    /\ []((pc = "prompt" /\ InCalls("query"))
            => /\ console = <<Printed("agent_label")>> \o stream
                             \o <<Printed("newline")>>
               /\ calls = <<"query", "receive_response">>)
    /\ [][pc = "receive" => /\ user_input' = user_input
                            /\ prompt_turn' = prompt_turn
                            /\ pc' \in {"receive", "prompt", "exiting"}]_vars

\* a stream of two different messages was printed and the loop is back at the
\* prompt
C16_Witness ==
    /\ pc = "prompt"
    /\ Len(stream) = 2
    /\ stream[1] # stream[2]
    /\ console = <<Printed("agent_label"), stream[1], stream[2], Printed("newline")>>

\* C17: of two interleaved invocations of query_agent, each returns the
\* concatenation of the text fragments of its own stream, with no fragment of
\* the other's.
C17_InvocationsIndependent ==
    \A i \in Invocations :
       /\ p_pc[i] = "returned"
             => /\ p_result[i].returned
                /\ p_result[i].value = Fragments(p_stream[i])
       /\ p_pc[i] \in {"receive", "exiting", "return"}
             => p_text[i] = Fragments(p_stream[i])

\* both invocations have returned, each the two fragments of its own stream
C17_Witness ==
    /\ p_pc[1] = "returned"
    /\ p_pc[2] = "returned"
    /\ p_result[1].value = "Cats are great."
    /\ p_result[2].value = "are great.Cats "

\* C18: no operation of either flow changes the configuration record, and
\* the record every client is constructed with is that unchanged record.
C18_OptionsNeverMutated ==
    /\ options = AGENT_OPTIONS
    /\ pc # "start" => client_options = AGENT_OPTIONS
    /\ q_pc # "start" => q_client_options = AGENT_OPTIONS

\* the session was opened again by "new", with the same options
C18_Witness ==
    /\ pc = "prompt"
    /\ calls = <<"disconnect", "connect">>
    /\ client_options = AGENT_OPTIONS
    /\ options.model = "haiku"

\* no query or receive_response after a disconnect in a log of client calls
NoCallAfterDisconnect(log) ==
    \A i, j \in 1..Len(log) :
       (i < j /\ log[i] = "disconnect")
           => log[j] \notin {"query", "receive_response"}

\* C19: in both flows query and receive_response are invoked only while the
\* connection is established: not before the scope's connect has completed,
\* not between the disconnect and the connect of "new", not after the scope
\* has exited.
C19_CallsOnlyWhileConnected ==
    /\ pc \in {"query", "receive"} => open_conns = 1
    /\ pc \in {"start", "new_connect", "done", "raised"}
          => (calls = <<>> \/ calls[Len(calls)] \in {"connect", "disconnect"})
    /\ NoCallAfterDisconnect(calls)
    /\ q_pc \in {"query", "receive"} => q_conns = 1
    /\ q_calls # <<>> => q_calls[1] = "connect"
    /\ NoCallAfterDisconnect(q_calls)

\* the first response of a session is being consumed on the open connection
C19_Witness ==
    /\ pc = "receive"
    /\ received = 1
    /\ calls = <<"query", "receive_response">>
    /\ open_conns = 1
    /\ prev_turn = 0

CountCalls(op) == Cardinality({i \in 1..Len(calls) : calls[i] = op})

\* the outcome of a line by the tests in their order
OutcomeOf(s) ==
    IF lower(s) \in {W_exit, W_quit} THEN "terminate"
    ELSE IF lower(s) = W_new THEN "reset"
    ELSE IF strip(s) = <<>> THEN "skip"
    ELSE "query"

\* C20: an input line has exactly one of the outcomes terminate, reset, skip,
\* query, decided by the tests in that order: never both a reset and a
\* query, never more than one query or more than one reset.
C20_OneOutcomePerInput ==
    InputRead =>
       /\ CountCalls("query") <= 1
       /\ CountCalls("receive_response") <= 1
       /\ CountCalls("connect") <= 1
       /\ ~(InCalls("query") /\ InCalls("connect"))
       /\ OutcomeOf(user_input) = "terminate"
             => /\ LoopEnded
                /\ ~InCalls("query") /\ ~InCalls("connect")
       /\ OutcomeOf(user_input) = "reset"
             => /\ ~InCalls("query")
                /\ pc \in {"new_disconnect", "new_connect", "prompt",
                           "exiting", "raised"}
                /\ pc = "prompt" => InCalls("connect")
       /\ OutcomeOf(user_input) = "skip"
             => calls = <<>> /\ pc = "prompt"
       /\ OutcomeOf(user_input) = "query"
             => /\ ~InCalls("connect")
                /\ pc \in {"query", "receive", "prompt", "exiting", "raised"}
                /\ pc # "query" => InCalls("query")

\* a line that begins like a command was handled as one query
C20_Witness ==
    /\ user_input = W_news
    /\ pc = "prompt"
    /\ calls = <<"query", "receive_response">>

====
